---- MODULE Spec2Model ----
(***************************************************************************)
(* Model of generate_ring_sky_model.py: a central disk plus n_rings        *)
(* flux-normalised annuli, each annulus being an outer positive disk and   *)
(* an inner negative disk, stamped on an image and exported to FITS.       *)
(*                                                                         *)
(* Numbers.  The script computes in Python floats.  The model computes the *)
(* same expressions exactly: a number is (n/d) * pi^p with n, d integers,  *)
(* so math.pi is kept symbolic and no rounding takes place.  Every         *)
(* equality below is therefore the exact-arithmetic statement of which the *)
(* float result is the rounded image.                                      *)
(***************************************************************************)
EXTENDS Integers, Sequences, FiniteSets, TLC

\* ------------------------------------------------------------------ bounds
MaxRings   == 2
MaxDiam    == 2
MaxThick   == 2
MaxSpacing == 1
MaxFlux    == 2

\* --------------------------------------------------------- exact numbers
Abs(x) == IF x < 0 THEN 0 - x ELSE x

RECURSIVE GCD(_, _)
GCD(a, b) == IF b = 0 THEN a ELSE GCD(b, a % b)

\* (n/d) * pi^p in lowest terms, d > 0; zero has one representation
Num(n, d, p) ==
    IF n = 0 THEN [n |-> 0, d |-> 1, p |-> 0]
    ELSE LET g == GCD(Abs(n), Abs(d))
             s == IF d < 0 THEN 0 - 1 ELSE 1
         IN  [n |-> (s * n) \div g, d |-> (s * d) \div g, p |-> p]

\* float(k) of an integer k
float(k) == Num(k, 1, 0)

\* math.pi
pi == Num(1, 1, 1)

IsZero(x) == x.n = 0

\* x + y (both operands carry the same power of pi wherever the script adds)
Add(x, y) ==
    IF IsZero(x) THEN y
    ELSE IF IsZero(y) THEN x
    ELSE Num(x.n * y.d + y.n * x.d, x.d * y.d, x.p)

\* -x
Neg(x) == Num(0 - x.n, x.d, x.p)

\* x - y
Sub(x, y) == Add(x, Neg(y))

\* x * y
Mul(x, y) == Num(x.n * y.n, x.d * y.d, x.p + y.p)

\* x / y for y # 0 (Python raises ZeroDivisionError for y = 0)
Div(x, y) == Num(x.n * y.d, x.d * y.n, x.p - y.p)

\* x < y for operands with the same power of pi
Lt(x, y) == Sub(x, y).n < 0

Leq(x, y) == Sub(x, y).n <= 0

\* ------------------------------------------------------ optional values
\* Python None, and a value that is set
None == <<>>
Some(v) == <<v>>
IsSet(o) == o # None
Val(o) == o[1]

\* ------------------------------------------------------------ the inputs
\* angle strings handed to qa.convert(value, "rad"); the last one throws.
\* "12h00m00.00s" and "180deg" name the same angle.
AngleStrings == {"12h00m00.00s", "180deg", "-23d00m00.00", "not-an-angle"}
ValidAngles  == {"12h00m00.00s", "180deg", "-23d00m00.00"}

\* qa.convert(value, "rad") does not throw
Convertible(value) == value \in ValidAngles

\* qa.convert(value, "rad") for a value it accepts: the quantity in radians
\* (12h = 180deg = pi rad, -23d = -23*pi/180 rad)
convert(value) ==
    [value |-> IF value = "-23d00m00.00" THEN Num(0 - 23, 180, 1) ELSE Num(1, 1, 1),
     unit |-> "rad"]

\* qa.tos(q): the quantity printed as a number followed by its unit
tos(q) ==
    (IF q.value = Num(1, 1, 1) THEN "3.14159265" ELSE "-0.401425728") \o q.unit

Diameters   == {float(k) : k \in 0..MaxDiam}
Thicknesses == {float(k) : k \in (0 - 1)..MaxThick}
Spacings    == {float(k) : k \in 0..MaxSpacing}
Fluxes      == {float(k) : k \in 1..MaxFlux}
CentralFluxes == {None, Some(float(0)), Some(float(3))}
RingFluxes    == {None, Some(float(0)), Some(float(5))}
Brightnesses  == {None, Some(float(0)), Some(float(2))}
\* cell_size always has a value on the command line; a JSON file may omit it
CellSizes     == {None, Some(float(1))}
EntryPaths    == {"json", "cli"}

Configs ==
    [ ra_center : {"12h00m00.00s", "180deg", "not-an-angle"},
      dec_center : {"-23d00m00.00", "not-an-angle"},
      freq : {"343.5GHz"},
      n_rings : 0..MaxRings,
      central_diameter : Diameters,
      ring_thickness : Thicknesses,
      ring_spacing : Spacings,
      flux : Fluxes,
      central_flux : CentralFluxes,
      ring_flux : RingFluxes,
      ring_surface_brightness : Brightnesses,
      cell_size : CellSizes ]

VARIABLES
    entry,      \* which branch of __main__ runs: JSON hand-off or command line
    config,     \* the configuration as given (never changed)
    args,       \* the Namespace main works on
    pc,         \* position in the script
    cl,         \* the component list
    j,          \* the ring loop index
    log,        \* the per-ring logging.info records
    files,      \* artifacts on disk: "im", "fits"
    stamped,    \* components stamped on the image by ia.modify
    err         \* the exception that ended the run

vars == <<entry, config, args, pc, cl, j, log, files, stamped, err>>

NoErr == [kind |-> "none", role |-> "", value |-> ""]

\* ----------------------------------------------------- validate_ra_dec
\* mutant: the exception of qa.convert is swallowed
validate_ra_dec_swallow(value, type_str) ==
    [ok |-> TRUE, ret |-> value, exc |-> NoErr]

validate_ra_dec(value, type_str) ==
    IF Convertible(value)
    THEN [ok |-> TRUE, ret |-> value, exc |-> NoErr]
    ELSE [ok |-> FALSE, ret |-> value,
          exc |-> [kind |-> "ValueError", role |-> type_str, value |-> value]]

\* -------------------------------------------------------------- add_disk
\* the component cl.addcomponent stores
DiskComponent(center_dir, diameter_arcsec, total_flux_jy, freq) ==
    [dir |-> center_dir, flux |-> total_flux_jy, fluxunit |-> "Jy",
     freq |-> freq, shape |-> "Disk",
     majoraxis |-> diameter_arcsec, minoraxis |-> diameter_arcsec,
     positionangle |-> "0deg"]

add_disk(c, center_dir, diameter_arcsec, total_flux_jy, freq) ==
    Append(c, DiskComponent(center_dir, diameter_arcsec, total_flux_jy, freq))

\* ------------------------------------------------------------------ main
ra_rad(a) == convert(a.ra_center)

dec_rad(a) == convert(a.dec_center)

center_dir(a) == "J2000 " \o tos(ra_rad(a)) \o " " \o tos(dec_rad(a))

central_flux(a) ==
    IF IsSet(a.central_flux) THEN Val(a.central_flux) ELSE a.flux

Rc(a) == Div(a.central_diameter, float(2))

\* mutant: the gap between rings is left out of the ring pitch
Rin_noSpacing(a, k) == Add(Rc(a), Mul(float(k), a.ring_thickness))

\* mutant: a gap is also put between the central disk and ring 0
Rin_gapFirst(a, k) ==
    Add(Add(Rc(a), a.ring_spacing),
        Mul(float(k), Add(a.ring_thickness, a.ring_spacing)))

Rin(a, k) == Add(Rc(a), Mul(float(k), Add(a.ring_thickness, a.ring_spacing)))

Rout(a, k) == Add(Rin(a, k), a.ring_thickness)

Aout(a, k) == Mul(pi, Mul(Rout(a, k), Rout(a, k)))

Ain(a, k) == Mul(pi, Mul(Rin(a, k), Rin(a, k)))

Aring(a, k) == Sub(Aout(a, k), Ain(a, k))

\* mutant: truthiness test, so an explicit 0 falls back to flux
ring_flux_truthy(a) ==
    IF IsSet(a.ring_flux) /\ ~IsZero(Val(a.ring_flux))
    THEN Val(a.ring_flux) ELSE a.flux

ring_flux(a) ==
    IF IsSet(a.ring_flux) THEN Val(a.ring_flux) ELSE a.flux

\* mutant: the division by Aring is done in both modes
Raises_anyMode(a, k) == IsZero(Aring(a, k))

\* ring_flux / Aring raises ZeroDivisionError; only the total-flux branch divides
Raises(a, k) ==
    /\ ~IsSet(a.ring_surface_brightness)
    /\ IsZero(Aring(a, k))

\* mutant: the ring flux is normalised by the outer disk area
I_byAout(a, k) ==
    IF IsSet(a.ring_surface_brightness)
    THEN Val(a.ring_surface_brightness)
    ELSE Div(ring_flux(a), Aout(a, k))

I(a, k) ==
    IF IsSet(a.ring_surface_brightness)
    THEN Val(a.ring_surface_brightness)
    ELSE Div(ring_flux(a), Aring(a, k))

Fout(a, k) == Mul(I(a, k), Aout(a, k))

\* mutant: the inner disk gets the outer disk area
Finn_outer(a, k) == Mul(I(a, k), Aout(a, k))

Finn(a, k) == Mul(I(a, k), Ain(a, k))

\* mutant: the inner disk is added before the outer disk
RingDisks_swapped(c, a, k) ==
    add_disk(add_disk(c, center_dir(a), Mul(float(2), Rin(a, k)), Neg(Finn(a, k)), a.freq),
             center_dir(a), Mul(float(2), Rout(a, k)), Fout(a, k), a.freq)

\* the two add_disk calls of one iteration
RingDisks(c, a, k) ==
    add_disk(add_disk(c, center_dir(a), Mul(float(2), Rout(a, k)), Fout(a, k), a.freq),
             center_dir(a), Mul(float(2), Rin(a, k)), Neg(Finn(a, k)), a.freq)

\* the logging.info record of one iteration
RingLog(a, k) ==
    [ring |-> k + 1, Rin |-> Rin(a, k), Rout |-> Rout(a, k),
     Aring |-> Aring(a, k), I |-> I(a, k),
     Flux |-> Sub(Fout(a, k), Finn(a, k))]

\* ------------------------------------------------------------------ Init
Init ==
    /\ entry \in EntryPaths
    /\ config \in Configs
    /\ entry = "cli" => IsSet(config.cell_size)
    /\ args = config
    /\ pc = "validate_ra"
    /\ cl = <<>>
    /\ j = 0
    /\ log = <<>>
    /\ files = {}
    /\ stamped = <<>>
    /\ err = NoErr

\* --------------------------------------------------------------- actions
Fail(e) ==
    /\ pc' = "failed"
    /\ err' = e

\* __main__: args.ra_center = validate_ra_dec(args.ra_center, "RA")
ValidateRA ==
    /\ pc = "validate_ra"
    /\ LET r == validate_ra_dec(args.ra_center, "RA")
       IN  IF r.ok
           THEN /\ args' = [args EXCEPT !.ra_center = r.ret]
                /\ pc' = "validate_dec"
                /\ err' = err
           ELSE /\ Fail(r.exc)
                /\ args' = args
    /\ UNCHANGED <<entry, config, cl, j, log, files, stamped>>

\* __main__: args.dec_center = validate_ra_dec(args.dec_center, "Dec")
ValidateDec ==
    /\ pc = "validate_dec"
    /\ LET r == validate_ra_dec(args.dec_center, "Dec")
       IN  IF r.ok
           THEN /\ args' = [args EXCEPT !.dec_center = r.ret]
                /\ pc' = "main"
                /\ err' = err
           ELSE /\ Fail(r.exc)
                /\ args' = args
    /\ UNCHANGED <<entry, config, cl, j, log, files, stamped>>

\* main up to the ring loop: the centre direction and the central disk
AddCentral ==
    /\ pc = "main"
    /\ cl' = add_disk(<<>>, center_dir(args), args.central_diameter,
                      central_flux(args), args.freq)
    /\ j' = 0
    /\ pc' = "loop"
    /\ UNCHANGED <<entry, config, args, log, files, stamped, err>>

\* one iteration of  for j in range(args.n_rings)
RingIter ==
    /\ pc = "loop"
    /\ j < args.n_rings
    /\ IF Raises(args, j)
       THEN /\ Fail([kind |-> "ZeroDivisionError", role |-> "", value |-> ""])
            /\ UNCHANGED <<cl, j, log>>
       ELSE /\ cl' = RingDisks(cl, args, j)
            /\ log' = Append(log, RingLog(args, j))
            /\ j' = j + 1
            /\ UNCHANGED <<pc, err>>
    /\ UNCHANGED <<entry, config, args, files, stamped>>

\* loop exit, then ia.fromshape(f"{imagename}.im", shape, overwrite=True)
FromShape ==
    /\ pc = "loop"
    /\ j >= args.n_rings
    /\ files' = files \cup {"im"}
    /\ pc' = "coordsys"
    /\ UNCHANGED <<entry, config, args, cl, j, log, stamped, err>>

\* coordinate system set-up; reading args.cell_size raises AttributeError
\* when the JSON configuration has no such key
SetCoordSys ==
    /\ pc = "coordsys"
    /\ IF IsSet(args.cell_size)
       THEN /\ pc' = "stamp"
            /\ err' = err
       ELSE Fail([kind |-> "AttributeError", role |-> "", value |-> "cell_size"])
    /\ UNCHANGED <<entry, config, args, cl, j, log, files, stamped>>

\* ia.modify(cl.torecord(), subtract=False); ia.done()
Stamp ==
    /\ pc = "stamp"
    /\ stamped' = cl
    /\ pc' = "export"
    /\ UNCHANGED <<entry, config, args, cl, j, log, files, err>>

\* exportfits(imagename=..., fitsimage=..., overwrite=True)
ExportFits ==
    /\ pc = "export"
    /\ files' = files \cup {"fits"}
    /\ pc' = "done"
    /\ UNCHANGED <<entry, config, args, cl, j, log, stamped, err>>

Next ==
    \/ ValidateRA
    \/ ValidateDec
    \/ AddCentral
    \/ RingIter
    \/ FromShape
    \/ SetCoordSys
    \/ Stamp
    \/ ExportFits

Spec == Init /\ [][Next]_vars

TypeOK ==
    /\ pc \in {"validate_ra", "validate_dec", "main", "loop", "coordsys",
               "stamp", "export", "done", "failed"}
    /\ j \in 0..(MaxRings + 1)
    /\ files \subseteq {"im", "fits"}

\* ================================================================ claims
\* what the claims talk about, read off the program's state
Two == float(2)
Sq(x) == Mul(x, x)
TotalFluxMode == config.ring_surface_brightness = None
SurfaceBrightnessMode == config.ring_surface_brightness # None
ValidGeometry ==
    /\ Leq(float(0), config.central_diameter)
    /\ Lt(float(0), config.ring_thickness)
    /\ Leq(float(0), config.ring_spacing)
RequestedRingFlux ==
    IF config.ring_flux # None THEN config.ring_flux[1] ELSE config.flux
RequestedCentralFlux ==
    IF config.central_flux # None THEN config.central_flux[1] ELSE config.flux
Rings == 1..Len(log)
\* the disks of ring k (k = 1 is ring index 0) as they sit in the component list
OuterDisk(k) == cl[2 * k]
InnerDisk(k) == cl[2 * k + 1]
EmittedFout(k) == OuterDisk(k).flux
EmittedFinn(k) == Neg(InnerDisk(k).flux)
NetFlux(k) == Sub(EmittedFout(k), EmittedFinn(k))
AnnulusArea(k) == Mul(pi, Sub(Sq(log[k].Rout), Sq(log[k].Rin)))
LoopCompleted == pc \in {"coordsys", "stamp", "export", "done"}

\* C1: in total-flux mode with valid geometry, every ring's net flux
\* Fout - Finn equals the requested per-ring flux, whatever the ring index.
C1_FluxInvariance ==
    (TotalFluxMode /\ ValidGeometry) =>
        \A k \in Rings : NetFlux(k) = RequestedRingFlux

C1_Witness ==
    /\ pc = "done"
    /\ TotalFluxMode /\ ValidGeometry
    /\ Len(log) = 2
    /\ ~IsZero(RequestedRingFlux)
    /\ log[1].Rin # log[2].Rin
    /\ NetFlux(2) = RequestedRingFlux

\* C2: rings use ring_surface_brightness when it is set (ring_flux ignored),
\* else ring_flux when set (an explicit 0 included), else flux; the central
\* disk uses central_flux when set, else flux, whatever the ring mode is.
C2_OverridePrecedence ==
    /\ Len(cl) >= 1 => cl[1].flux = RequestedCentralFlux
    /\ \A k \in Rings :
          IF config.ring_surface_brightness # None
          THEN /\ log[k].I = config.ring_surface_brightness[1]
               /\ EmittedFout(k) =
                     Mul(config.ring_surface_brightness[1], Mul(pi, Sq(log[k].Rout)))
               /\ EmittedFinn(k) =
                     Mul(config.ring_surface_brightness[1], Mul(pi, Sq(log[k].Rin)))
          ELSE IF config.ring_flux # None
          THEN NetFlux(k) = config.ring_flux[1]
          ELSE NetFlux(k) = config.flux

C2_Witness ==
    /\ pc = "done"
    /\ Len(log) >= 1
    /\ config.ring_surface_brightness = Some(float(2))
    /\ config.ring_flux = Some(float(5))
    /\ config.central_flux = Some(float(3))
    /\ cl[1].flux = float(3)
    /\ log[1].I = float(2)

\* C3: after k iterations the list holds 1 + 2k components; when the loop
\* has completed it holds 1 + 2 * n_rings: the central disk first, then per
\* ring in ascending order the outer disk (2*Rout, +Fout) and the inner disk
\* (2*Rin, -Finn).
C3_ComponentOrder ==
    /\ pc = "loop" => Len(cl) = 1 + 2 * j /\ Len(log) = j
    /\ LoopCompleted => Len(cl) = 1 + 2 * config.n_rings
    /\ Len(cl) >= 1 =>
          /\ cl[1].majoraxis = config.central_diameter
          /\ cl[1].minoraxis = config.central_diameter
          /\ cl[1].flux = RequestedCentralFlux
          /\ Len(cl) = 1 + 2 * Len(log)
    /\ \A k \in Rings :
          /\ log[k].ring = k
          /\ OuterDisk(k).majoraxis = Mul(Two, log[k].Rout)
          /\ OuterDisk(k).flux = Mul(log[k].I, Mul(pi, Sq(log[k].Rout)))
          /\ InnerDisk(k).majoraxis = Mul(Two, log[k].Rin)
          /\ InnerDisk(k).flux = Neg(Mul(log[k].I, Mul(pi, Sq(log[k].Rin))))
          /\ k > 1 => Sub(log[k].Rin, log[k - 1].Rin) =
                         Add(config.ring_thickness, config.ring_spacing)

C3_Witness ==
    /\ pc = "done"
    /\ config.n_rings = 2
    /\ Len(cl) = 5
    /\ Lt(float(0), config.ring_thickness)
    /\ ~IsZero(cl[2].flux)

\* C4 (as claimed): in total-flux mode no ring whose annulus area is zero or
\* negative ever gets its disks into the component list.
C4_NoDegenerateRing ==
    TotalFluxMode => \A k \in Rings : AnnulusArea(k).n > 0

\* C5 (as claimed): in surface-brightness mode with ring_thickness = 0 the
\* rings are computed without error and have Fout = Finn = 0, net flux 0.
C5_ZeroFluxes ==
    (SurfaceBrightnessMode /\ IsZero(config.ring_thickness)) =>
        /\ err.kind # "ZeroDivisionError"
        /\ \A k \in Rings :
              /\ IsZero(EmittedFout(k))
              /\ IsZero(EmittedFinn(k))
              /\ IsZero(NetFlux(k))

\* C5 (amended): in surface-brightness mode with ring_thickness = 0 no ring
\* raises, the loop runs through all rings, and every ring has
\* Fout = Finn = I * Ain (zero only if I = 0 or Rin = 0), net flux 0.
C5_EqualFluxes ==
    (SurfaceBrightnessMode /\ IsZero(config.ring_thickness)) =>
        /\ err.kind # "ZeroDivisionError"
        /\ pc \in {"failed", "done"} /\ Convertible(config.ra_center)
              /\ Convertible(config.dec_center) => Len(log) = config.n_rings
        /\ \A k \in Rings :
              /\ EmittedFout(k) = EmittedFinn(k)
              /\ EmittedFinn(k) =
                    Mul(config.ring_surface_brightness[1], Mul(pi, Sq(log[k].Rin)))
              /\ IsZero(NetFlux(k))

C5_Witness ==
    /\ pc = "done"
    /\ SurfaceBrightnessMode /\ IsZero(config.ring_thickness)
    /\ Len(log) = 2
    /\ ~IsZero(EmittedFout(2))
    /\ EmittedFout(2) = EmittedFinn(2)

\* C6: with valid geometry Rin(j) < Rout(j) <= Rin(j+1) and
\* Rin(j+1) - Rout(j) = ring_spacing for consecutive rings.
C6_MonotonicRadii ==
    ValidGeometry =>
        \A k \in Rings :
            /\ Lt(log[k].Rin, log[k].Rout)
            /\ Sub(log[k].Rout, log[k].Rin) = config.ring_thickness
            /\ k + 1 \in Rings =>
                  /\ Leq(log[k].Rout, log[k + 1].Rin)
                  /\ Sub(log[k + 1].Rin, log[k].Rout) = config.ring_spacing

C6_Witness ==
    /\ ValidGeometry
    /\ Len(log) = 2
    /\ ~IsZero(config.ring_spacing)
    /\ Lt(log[1].Rout, log[2].Rin)

\* C7 (as claimed): a run that ends with an error has written no artifact.
C7_NoPartialArtifact ==
    pc = "failed" => files = {}

\* C8: an angle string that fails conversion ends the run with a ValueError
\* naming the value and its role before any geometry is computed and before
\* any component is added, on either entry path; a string that passes is
\* handed on unchanged.
C8_InvalidAngleFailsFast ==
    /\ ~Convertible(config.ra_center) =>
          /\ pc \in {"validate_ra", "failed"}
          /\ pc = "failed" =>
                err = [kind |-> "ValueError", role |-> "RA",
                       value |-> config.ra_center]
    /\ (Convertible(config.ra_center) /\ ~Convertible(config.dec_center)) =>
          /\ pc \in {"validate_ra", "validate_dec", "failed"}
          /\ pc = "failed" =>
                err = [kind |-> "ValueError", role |-> "Dec",
                       value |-> config.dec_center]
    /\ err.kind = "ValueError" =>
          cl = <<>> /\ log = <<>> /\ j = 0 /\ files = {} /\ stamped = <<>>
    /\ args.ra_center = config.ra_center
    /\ args.dec_center = config.dec_center
    /\ Len(cl) >= 1 =>
          Convertible(config.ra_center) /\ Convertible(config.dec_center)

C8_Witness ==
    /\ pc = "failed"
    /\ entry = "json"
    /\ err = [kind |-> "ValueError", role |-> "Dec", value |-> "not-an-angle"]
    /\ args.ra_center = "12h00m00.00s"
    /\ cl = <<>>

\* C9: in surface-brightness mode with value I and valid geometry, every
\* ring has Fout - Finn = I * annulus_area with annulus_area > 0, whatever
\* ring_flux and flux are.
C9_SurfaceBrightnessConsistency ==
    (SurfaceBrightnessMode /\ ValidGeometry) =>
        \A k \in Rings :
            /\ AnnulusArea(k).n > 0
            /\ log[k].Aring = AnnulusArea(k)
            /\ NetFlux(k) = Mul(config.ring_surface_brightness[1], AnnulusArea(k))
            /\ Div(NetFlux(k), AnnulusArea(k)) = config.ring_surface_brightness[1]

C9_Witness ==
    /\ pc = "done"
    /\ config.ring_surface_brightness = Some(float(2))
    /\ config.ring_flux = Some(float(5))
    /\ ValidGeometry
    /\ Len(log) = 2
    /\ NetFlux(2) = Mul(float(2), AnnulusArea(2))
    /\ NetFlux(2) # float(5)

\* C10: the first ring's inner radius is the central disk's radius whatever
\* ring_spacing is: the inner disk of ring 0 has the central disk's diameter.
C10_FirstRingTouchesCentre ==
    Len(log) >= 1 =>
        /\ log[1].Rin = Div(config.central_diameter, Two)
        /\ InnerDisk(1).majoraxis = config.central_diameter
        /\ InnerDisk(1).majoraxis = cl[1].majoraxis

C10_Witness ==
    /\ Len(log) >= 1
    /\ ~IsZero(config.ring_spacing)
    /\ ~IsZero(config.central_diameter)
    /\ InnerDisk(1).majoraxis = cl[1].majoraxis
====
